---- MODULE Spec2Model ----
(***************************************************************************)
(* PayID resolution middleware (src/middlewares/payIds.ts).                *)
(*                                                                         *)
(* getPaymentInfo turns one request (hostname, url, Accept header) into    *)
(* either an error response (400 / 404 through handleHttpError) or a call  *)
(* of next() with the matched payment information stored on res.locals.   *)
(* The handler suspends once, on the record fetch, so it is modelled by    *)
(* the step up to the await, and the step that runs when the fetch         *)
(* resolves (or rejects).                                                  *)
(***************************************************************************)
EXTENDS Integers, Sequences, FiniteSets, TLC

VARIABLES pc, req, payId, acceptHeaderTypes, parsedAcceptTypes,
          fetchArg, allPaymentInformation, result, res, log, fetchCount,
          errorCalls, nextCalls

vars == <<pc, req, payId, acceptHeaderTypes, parsedAcceptTypes,
          fetchArg, allPaymentInformation, result, res, log, fetchCount,
          errorCalls, nextCalls>>

-----------------------------------------------------------------------------
(* Bounds *)

\* longest Accept header, in media-type tokens
MaxTokens == 3

\* largest record set the store returns for one PayID
MaxRecords == 2

-----------------------------------------------------------------------------
(* Values *)

\* JavaScript `undefined` for an optional result: the empty sequence;
\* a present value v is <<v>>.
undefined == << >>

\* an absent environment segment / a NULL environment column
NoEnvironment == ""

BadRequest == 400
NotFound == 404

\* quality weights in tenths: 10 is q=1.0
DefaultQuality == 10

\* One Accept token as the transport layer supplies it: the media type split
\* at its grammar positions, and the raw text of the q parameter ("" = none).
Token(t, n, e, q) == [type |-> t, network |-> n, environment |-> e, q |-> q]

Tokens ==
  { Token("application", "xrpl", "mainnet", ""),
    Token("application", "XRPL", "TestNet", "0.5"),
    Token("application", "ach",  NoEnvironment, "0.9"),
    Token("application", "BTC",  "mainnet", "0.5"),
    Token("application", "xrpl", NoEnvironment, "1.5"),
    Token("text",        "html", NoEnvironment, "") }

\* One stored address (AddressInformation). detailsKind is the shape the
\* stored details actually have.
Address(n, e, k, d) ==
  [payment_network |-> n, environment |-> e, detailsKind |-> k, details |-> d]

Addresses ==
  { Address("xrpl", "mainnet", "crypto-address", "rA"),
    Address("xrpl", "mainnet", "crypto-address", "rB"),
    Address("xrpl", "testnet", "crypto-address", "rT"),
    Address("ach",  NoEnvironment, "ach-address", "acct1"),
    Address("ACH",  NoEnvironment, "ach-address", "acct2"),
    Address("btc",  "testnet", "crypto-address", "bT") }

SeqsUpTo(S, n) == UNION { [1..k -> S] : k \in 0..n }

AcceptHeaders == SeqsUpTo(Tokens, MaxTokens)

RecordSets == SeqsUpTo(Addresses, MaxRecords)

\* req.hostname and req.url of the inbound requests
Requests ==
  { [hostname |-> h, url |-> u, accept |-> a] :
      h \in {"example.com"}, u \in {"/alice", "/bob", "/"},
      a \in AcceptHeaders }

-----------------------------------------------------------------------------
(* Collaborators of the handler *)

\* String.toLowerCase on the spellings the token universe uses
Lower(s) ==
  CASE s = "XRPL" -> "xrpl"
    [] s = "BTC" -> "btc"
    [] s = "ACH" -> "ach"
    [] s = "TestNet" -> "testnet"
    [] OTHER -> s

\* numeric value of a q parameter in tenths; -1 stands for NaN
QualityOf(q) ==
  CASE q = "" -> DefaultQuality
    [] q = "0.5" -> 5
    [] q = "0.9" -> 9
    [] q = "1.5" -> 15
    [] OTHER -> -1

\* the grammar application/{network}(-{environment})?+json(;q=[0,1])?
MatchesGrammar(token) ==
  /\ token.type = "application"
  /\ token.network # ""
  /\ QualityOf(token.q) >= 0
  /\ QualityOf(token.q) <= 10

MediaTypeString(network, environment) ==
  "application/" \o network
     \o (IF environment = NoEnvironment THEN "" ELSE "-" \o environment)
     \o "+json"

\* parseAcceptMediaType: the value returned when the token matches the
\* grammar (it throws otherwise, see MatchesGrammar)
parseAcceptMediaType(token) ==
  [ mediaType |-> MediaTypeString(Lower(token.network), Lower(token.environment)),
    paymentNetwork |-> Lower(token.network),
    environment |-> Lower(token.environment),
    quality |-> QualityOf(token.q) ]

\* req.accepts() without arguments: the header's types sorted by preference,
\* quality descending, equal qualities in header order
InsertByQuality(x, s) ==
  LET n == Cardinality({ i \in 1..Len(s) : QualityOf(s[i].q) >= QualityOf(x.q) })
  IN  SubSeq(s, 1, n) \o <<x>> \o SubSeq(s, n + 1, Len(s))

RECURSIVE SortPrefix(_, _)
SortPrefix(header, k) ==
  IF k = 0 THEN << >>
  ELSE InsertByQuality(header[k], SortPrefix(header, k - 1))

\* variant: the types in header order, unranked
accepts_headerOrder(header) == header

accepts(header) == SortPrefix(header, Len(header))

\* `https://${req.hostname}${req.url}`
payIdUrl(r) == <<"https://", r.hostname, r.url>>

\* urlToPayId throws on a URL with no user path
UrlIsPayId(url) == url[3] # "/"

PathUser(path) ==
  CASE path = "/alice" -> "alice"
    [] path = "/bob" -> "bob"
    [] OTHER -> ""

urlToPayId(url) == PathUser(url[3]) \o "$" \o url[2]

\* a record satisfies a preference: same network, and same environment
\* unless the preference names none
SatisfiesPreference(record, acceptType) ==
  /\ record.payment_network = acceptType.paymentNetwork
  /\ \/ acceptType.environment = NoEnvironment
     \/ record.environment = acceptType.environment

FirstSatisfying(records, acceptType) ==
  LET hits == { i \in 1..Len(records) : SatisfiesPreference(records[i], acceptType) }
  IN  IF hits = {} THEN 0 ELSE CHOOSE i \in hits : \A j \in hits : i <= j

\* getPreferredPaymentInfo: walk the preferences in order, return the first
\* record satisfying the first preference that has one
RECURSIVE PreferredFrom(_, _, _)
PreferredFrom(records, sortedAcceptTypes, k) ==
  IF k > Len(sortedAcceptTypes) THEN undefined
  ELSE LET i == FirstSatisfying(records, sortedAcceptTypes[k])
       IN  IF i # 0
           THEN << [ acceptType |-> sortedAcceptTypes[k],
                     paymentInformation |-> records[i] ] >>
           ELSE PreferredFrom(records, sortedAcceptTypes, k + 1)

\* variant: the first record that satisfies any preference (record order
\* dominates preference order)
getPreferredPaymentInfo_recordFirst(records, sortedAcceptTypes) ==
  LET hits == { i \in 1..Len(records) :
                  \E k \in 1..Len(sortedAcceptTypes) :
                     SatisfiesPreference(records[i], sortedAcceptTypes[k]) }
  IN  IF hits = {} THEN undefined
      ELSE LET i == CHOOSE i \in hits : \A j \in hits : i <= j
               ks == { k \in 1..Len(sortedAcceptTypes) :
                         SatisfiesPreference(records[i], sortedAcceptTypes[k]) }
               k == CHOOSE k \in ks : \A j \in ks : k <= j
           IN  << [ acceptType |-> sortedAcceptTypes[k],
                    paymentInformation |-> records[i] ] >>

getPreferredPaymentInfo(records, sortedAcceptTypes) ==
  PreferredFrom(records, sortedAcceptTypes, 1)

-----------------------------------------------------------------------------
(* The response object and handleHttpError *)

NoLocals == [payId |-> "", paymentInformation |-> undefined, response |-> undefined]

\* a response nothing has been written to
FreshResponse ==
  [statusCode |-> 0, message |-> "", contentType |-> "", locals |-> NoLocals]

\* handleHttpError(status, message, res): sends the error, touches nothing else
handleHttpError(status, message, r) ==
  [r EXCEPT !.statusCode = status, !.message = message]

InvalidIdentifierMessage == "Bad input. The URL is not a PayID."
MissingAcceptMessage == "Missing Accept header."
InvalidAcceptMessage == "Invalid Accept header."

-----------------------------------------------------------------------------
(* getPaymentInfo, piece by piece *)

\* variant: the emptiness test on the Accept types is missing
HasAcceptTypes_unchecked(types) == TRUE

\* `if (!acceptHeaderTypes.length)` is false
HasAcceptTypes(types) == Len(types) # 0

\* variant: only the most preferred type is validated
AllTypesParse_firstOnly(types) == Len(types) = 0 \/ MatchesGrammar(types[1])

\* the map over parseAcceptMediaType completes without a throw
AllTypesParse(types) == \A i \in 1..Len(types) : MatchesGrammar(types[i])

\* acceptHeaderTypes.map((type) => parseAcceptMediaType(type))
MapParse(types) == [i \in 1..Len(types) |-> parseAcceptMediaType(types[i])]

\* variant: one query per accepted type
FetchCalls_perType(sortedAcceptTypes) == Len(sortedAcceptTypes)

\* getPaymentInfoForAcceptTypes, up to its await: how many times it calls
\* getAllPaymentInfoFromDatabase
FetchCalls(sortedAcceptTypes) ==
  IF Len(sortedAcceptTypes) = 0 THEN 0 ELSE 1

\* variant: the most preferred type is reported with whatever record matched
getPaymentInfoForAcceptTypes_topType(records, sortedAcceptTypes) ==
  IF Len(sortedAcceptTypes) = 0 THEN undefined
  ELSE LET found == getPreferredPaymentInfo(records, sortedAcceptTypes)
       IN  IF found = undefined THEN undefined
           ELSE << [found[1] EXCEPT !.acceptType = sortedAcceptTypes[1]] >>

\* getPaymentInfoForAcceptTypes, from its await on
getPaymentInfoForAcceptTypes(records, sortedAcceptTypes) ==
  IF Len(sortedAcceptTypes) = 0 THEN undefined
  ELSE getPreferredPaymentInfo(records, sortedAcceptTypes)

\* variant: the detailed message whenever there is a first accepted type
NotFoundMessage_anyFirst(id, parsed) ==
  IF Len(parsed) >= 1
  THEN "Payment information for " \o id \o " in " \o parsed[1].paymentNetwork
          \o " on " \o parsed[1].environment \o " could not be found."
  ELSE "Payment information for " \o id \o " could not be found."

\* the 404 message
NotFoundMessage(id, parsed) ==
  IF Len(parsed) = 1
  THEN "Payment information for " \o id \o " in " \o parsed[1].paymentNetwork
          \o " on " \o parsed[1].environment \o " could not be found."
  ELSE "Payment information for " \o id \o " could not be found."

\* the PaymentInformation sent to the client
PaymentInformationResponse(paymentInformation) ==
  IF paymentInformation.payment_network = "ACH"
  THEN [addressDetailType |-> "AchAddress",
        addressDetails |-> paymentInformation.details]
  ELSE [addressDetailType |-> "CryptoAddress",
        addressDetails |-> paymentInformation.details]

\* variant: res.locals.payId is stored before the result is examined
Finish_storesEarly(id, parsed, found, r) ==
  LET r1 == [r EXCEPT !.locals.payId = id]
  IN  IF found = undefined
      THEN [res |-> handleHttpError(NotFound, NotFoundMessage(id, parsed), r1),
            log |-> <<"handleHttpError">>, errorCalls |-> 1, nextCalls |-> 0]
      ELSE LET response == PaymentInformationResponse(found[1].paymentInformation)
           IN  [res |-> [r1 EXCEPT !.contentType = found[1].acceptType.mediaType,
                                   !.locals = [payId |-> id,
                                               paymentInformation |-> <<response>>,
                                               response |-> <<response>>]],
                log |-> <<"next">>, errorCalls |-> 0, nextCalls |-> 1]

\* getPaymentInfo from `if (result === undefined)` to its return
Finish(id, parsed, found, r) ==
  IF found = undefined
  THEN [res |-> handleHttpError(NotFound, NotFoundMessage(id, parsed), r),
        log |-> <<"handleHttpError">>, errorCalls |-> 1, nextCalls |-> 0]
  ELSE LET response == PaymentInformationResponse(found[1].paymentInformation)
       IN  [res |-> [r EXCEPT !.contentType = found[1].acceptType.mediaType,
                              !.locals = [payId |-> id,
                                          paymentInformation |-> <<response>>,
                                          response |-> <<response>>]],
            log |-> <<"next">>, errorCalls |-> 0, nextCalls |-> 1]

-----------------------------------------------------------------------------
(* State machine *)

Init ==
  /\ pc = "idle"
  /\ req = [hostname |-> "", url |-> "", accept |-> << >>]
  /\ payId = ""
  /\ acceptHeaderTypes = << >>
  /\ parsedAcceptTypes = << >>
  /\ fetchArg = ""
  /\ allPaymentInformation = << >>
  /\ result = undefined
  /\ res = FreshResponse
  /\ log = << >>
  /\ fetchCount = 0
  /\ errorCalls = 0
  /\ nextCalls = 0

\* a request ends with an error response before anything else is computed
Fail(status, message, steps) ==
  /\ pc' = "done"
  /\ res' = handleHttpError(status, message, FreshResponse)
  /\ log' = steps \o <<"handleHttpError">>
  /\ errorCalls' = 1
  /\ nextCalls' = 0
  /\ fetchCount' = 0
  /\ fetchArg' = ""
  /\ result' = undefined
  /\ allPaymentInformation' = << >>

\* getPaymentInfo(req, res, next) from its entry to the await of the fetch
\* (or to its return, when it returns before the fetch). Every request gets
\* its own res and its own locals, so one behaviour follows one request.
getPaymentInfo(r) ==
  /\ pc = "idle"
  /\ req' = r
  /\ IF ~UrlIsPayId(payIdUrl(r))
     THEN /\ payId' = ""
          /\ acceptHeaderTypes' = << >>
          /\ parsedAcceptTypes' = << >>
          /\ Fail(BadRequest, InvalidIdentifierMessage, <<"urlToPayId">>)
     ELSE
     /\ payId' = urlToPayId(payIdUrl(r))
     /\ acceptHeaderTypes' = accepts(r.accept)
     /\ IF ~HasAcceptTypes(acceptHeaderTypes')
        THEN /\ parsedAcceptTypes' = << >>
             /\ Fail(BadRequest, MissingAcceptMessage, <<"urlToPayId", "accepts">>)
        ELSE IF ~AllTypesParse(acceptHeaderTypes')
        THEN /\ parsedAcceptTypes' = << >>
             /\ Fail(BadRequest, InvalidAcceptMessage,
                     <<"urlToPayId", "accepts", "parseAcceptMediaType">>)
        ELSE
        /\ parsedAcceptTypes' = MapParse(acceptHeaderTypes')
        /\ fetchCount' = FetchCalls(parsedAcceptTypes')
        /\ allPaymentInformation' = << >>
        /\ IF fetchCount' > 0
           THEN /\ pc' = "awaitFetch"
                /\ fetchArg' = payId'
                /\ result' = undefined
                /\ res' = FreshResponse
                /\ log' = <<"urlToPayId", "accepts", "parseAcceptMediaType">>
                             \o [i \in 1..fetchCount' |->
                                   "getAllPaymentInfoFromDatabase"]
                /\ errorCalls' = 0
                /\ nextCalls' = 0
           ELSE LET end == Finish(payId', parsedAcceptTypes', undefined, FreshResponse)
                IN  /\ pc' = "done"
                    /\ fetchArg' = ""
                    /\ result' = undefined
                    /\ res' = end.res
                    /\ log' = <<"urlToPayId", "accepts", "parseAcceptMediaType">>
                                 \o end.log
                    /\ errorCalls' = end.errorCalls
                    /\ nextCalls' = end.nextCalls

\* the fetch resolves with the records of the store: the rest of
\* getPaymentInfoForAcceptTypes and of getPaymentInfo
FetchResolves(records) ==
  /\ pc = "awaitFetch"
  /\ allPaymentInformation' = records
  /\ result' = getPaymentInfoForAcceptTypes(records, parsedAcceptTypes)
  /\ LET end == Finish(payId, parsedAcceptTypes, result', res)
     IN  /\ res' = end.res
         /\ log' = log \o <<"getPreferredPaymentInfo">> \o end.log
         /\ errorCalls' = errorCalls + end.errorCalls
         /\ nextCalls' = nextCalls + end.nextCalls
  /\ pc' = "done"
  /\ UNCHANGED <<req, payId, acceptHeaderTypes, parsedAcceptTypes, fetchArg,
                 fetchCount>>

\* the fetch rejects: the await throws and getPaymentInfo ends there
FetchRejects ==
  /\ pc = "awaitFetch"
  /\ pc' = "rejected"
  /\ UNCHANGED <<req, payId, acceptHeaderTypes, parsedAcceptTypes, fetchArg,
                 allPaymentInformation, result, res, log, fetchCount,
                 errorCalls, nextCalls>>

Next ==
  \/ \E r \in Requests : getPaymentInfo(r)
  \/ \E records \in RecordSets : FetchResolves(records)
  \/ FetchRejects

Spec == Init /\ [][Next]_vars

TypeOK ==
  /\ pc \in {"idle", "awaitFetch", "done", "rejected"}
  /\ fetchCount \in 0..MaxTokens
  /\ res.statusCode \in {0, BadRequest, NotFound}

-----------------------------------------------------------------------------
(* Properties *)

WellFormedIdentifier == UrlIsPayId(payIdUrl(req))

AllTokensValid == \A i \in 1..Len(req.accept) : MatchesGrammar(req.accept[i])

Started == pc # "idle"

Succeeded == pc = "done" /\ nextCalls = 1

EndsWith(status, message) ==
  pc = "done" /\ res.statusCode = status /\ res.message = message

\* C1 (as stated): whatever the identifier, well-formed or not, a request
\* with an empty Accept list ends in MissingAcceptHeader.
C1_EmptyAcceptAnyIdentifier ==
  (Started /\ req.accept = << >>) => EndsWith(BadRequest, MissingAcceptMessage)

\* C1 (amended): with an empty Accept list the request never ends in NotFound
\* and never reaches the fetch; it ends in MissingAcceptHeader when the
\* identifier is well-formed and in InvalidIdentifier when it is not.
C1_EmptyAccept ==
  (Started /\ req.accept = << >>) =>
     /\ res.statusCode # NotFound
     /\ fetchCount = 0
     /\ IF WellFormedIdentifier
        THEN EndsWith(BadRequest, MissingAcceptMessage)
        ELSE EndsWith(BadRequest, InvalidIdentifierMessage)

C1_Witness ==
  /\ req.accept = << >>
  /\ WellFormedIdentifier
  /\ EndsWith(BadRequest, MissingAcceptMessage)

\* C2: with a well-formed identifier and a non-empty Accept list, one token
\* outside the grammar, at any position, ends the request in
\* InvalidAcceptHeader; nothing is fetched, matched or stored.
C2_AllOrNothing ==
  (Started /\ WellFormedIdentifier /\ req.accept # << >> /\ ~AllTokensValid) =>
     /\ EndsWith(BadRequest, InvalidAcceptMessage)
     /\ fetchCount = 0
     /\ result = undefined
     /\ nextCalls = 0
     /\ res.locals = NoLocals

\* the bad token is last, behind valid tokens
C2_Witness ==
  /\ Len(req.accept) >= 2
  /\ \A i \in 1..(Len(req.accept) - 1) : MatchesGrammar(req.accept[i])
  /\ ~MatchesGrammar(req.accept[Len(req.accept)])
  /\ EndsWith(BadRequest, InvalidAcceptMessage)

\* C3: the match is that of the earliest preference with a satisfying record
\* and, for that preference, the first satisfying record of the record set;
\* there is no match exactly when no preference has a satisfying record.
C3_PreferenceDominance ==
  (pc = "done" /\ fetchCount > 0) =>
     LET prefs == parsedAcceptTypes
         recs == allPaymentInformation
         Sat(k) == { i \in 1..Len(recs) :
                       /\ recs[i].payment_network = prefs[k].paymentNetwork
                       /\ prefs[k].environment \in {NoEnvironment, recs[i].environment} }
         able == { k \in 1..Len(prefs) : Sat(k) # {} }
     IN  IF able = {} THEN result = undefined
         ELSE /\ result # undefined
              /\ \E k \in able : \E i \in Sat(k) :
                   /\ \A j \in able : k <= j
                   /\ \A j \in Sat(k) : i <= j
                   /\ result[1].acceptType = prefs[k]
                   /\ result[1].paymentInformation = recs[i]

\* records {xrpl-testnet}, preferences [xrpl-mainnet, xrpl-testnet]
C3_Witness ==
  /\ pc = "done"
  /\ Len(parsedAcceptTypes) = 2
  /\ parsedAcceptTypes[1].mediaType = "application/xrpl-mainnet+json"
  /\ parsedAcceptTypes[2].mediaType = "application/xrpl-testnet+json"
  /\ allPaymentInformation = << Address("xrpl", "testnet", "crypto-address", "rT") >>
  /\ result # undefined
  /\ result[1].acceptType = parsedAcceptTypes[2]

\* C4: on success the accepted type is one the client sent, it agrees with
\* the record on the network and (unless it names none) on the environment,
\* and the record is one of those fetched for the normalized identifier.
C4_SuccessInvariant ==
  Succeeded =>
     /\ result # undefined
     /\ \E i \in 1..Len(req.accept) :
           result[1].acceptType = parseAcceptMediaType(req.accept[i])
     /\ result[1].acceptType.paymentNetwork
           = result[1].paymentInformation.payment_network
     /\ result[1].acceptType.environment
           \in {NoEnvironment, result[1].paymentInformation.environment}
     /\ \E i \in 1..Len(allPaymentInformation) :
           allPaymentInformation[i] = result[1].paymentInformation
     /\ fetchArg = urlToPayId(payIdUrl(req))
     /\ res.contentType = result[1].acceptType.mediaType

\* a success on a preference that is not the first
C4_Witness ==
  /\ Succeeded
  /\ Len(parsedAcceptTypes) >= 2
  /\ result[1].acceptType # parsedAcceptTypes[1]
  /\ result[1].acceptType.environment = NoEnvironment

\* C5: the preferences handed to the matcher are the parsed tokens of the
\* header ordered by quality, highest first, tokens of equal quality in
\* header order: a permutation of the parsed header.
C5_Ranking ==
  fetchCount > 0 =>
     LET parsedHeader == [i \in 1..Len(req.accept) |->
                            parseAcceptMediaType(req.accept[i])]
         Qualities == { parsedHeader[i].quality : i \in 1..Len(parsedHeader) }
     IN  /\ Len(parsedAcceptTypes) = Len(parsedHeader)
         /\ \A i, j \in 1..Len(parsedAcceptTypes) :
               i < j => parsedAcceptTypes[i].quality >= parsedAcceptTypes[j].quality
         /\ \A v \in Qualities :
               SelectSeq(parsedAcceptTypes, LAMBDA t : t.quality = v)
                  = SelectSeq(parsedHeader, LAMBDA t : t.quality = v)

\* [A;q=0.5, B;q=0.9, C;q=0.5] is ranked [B, A, C]
C5_Witness ==
  /\ fetchCount > 0
  /\ req.accept = << Token("application", "XRPL", "TestNet", "0.5"),
                     Token("application", "ach", NoEnvironment, "0.9"),
                     Token("application", "BTC", "mainnet", "0.5") >>
  /\ parsedAcceptTypes
        = << parseAcceptMediaType(Token("application", "ach", NoEnvironment, "0.9")),
             parseAcceptMediaType(Token("application", "XRPL", "TestNet", "0.5")),
             parseAcceptMediaType(Token("application", "BTC", "mainnet", "0.5")) >>

\* C6: a NotFound names the network and environment of the accepted type
\* when exactly one type was supplied, and only the identifier when more
\* than one was.
C6_NotFoundDetail ==
  (pc = "done" /\ res.statusCode = NotFound) =>
     LET id == urlToPayId(payIdUrl(req))
     IN  IF Len(req.accept) = 1
         THEN res.message =
                "Payment information for " \o id \o " in "
                   \o parseAcceptMediaType(req.accept[1]).paymentNetwork \o " on "
                   \o parseAcceptMediaType(req.accept[1]).environment
                   \o " could not be found."
         ELSE res.message = "Payment information for " \o id \o " could not be found."

C6_Witness ==
  /\ pc = "done"
  /\ res.statusCode = NotFound
  /\ Len(req.accept) = 1
  /\ res.message
       = "Payment information for alice$example.com in btc on mainnet could not be found."

\* C7: on success the payload has the ACH shape exactly when the matched
\* record's details are of the ach-address kind, whatever the spelling of
\* the stored payment network.
C7_DetailKindExclusive ==
  Succeeded =>
     ( result[1].paymentInformation.detailsKind = "ach-address"
         <=> res.locals.response[1].addressDetailType = "AchAddress" )

\* C8: with well-formed input, no records at all and records that match no
\* accepted type both end in NotFound, and the response to the second differs
\* from the response the same request gets when the store has no record.
C8_AbsenceDistinguishable ==
  (pc = "done" /\ fetchCount > 0 /\ result = undefined) =>
     /\ res.statusCode = NotFound
     /\ allPaymentInformation # << >> =>
          res # Finish(payId, parsedAcceptTypes, undefined, FreshResponse).res

\* C9: the records are fetched once when the identifier is well-formed, the
\* Accept list is non-empty and every token parses, after those three steps
\* and before the match, and not at all otherwise.
C9_FetchCount ==
  Started =>
     LET fetches == { i \in 1..Len(log) : log[i] = "getAllPaymentInfoFromDatabase" }
     IN  /\ Cardinality(fetches) = fetchCount
         /\ fetchCount =
              (IF WellFormedIdentifier /\ req.accept # << >> /\ AllTokensValid
               THEN 1 ELSE 0)
         /\ res.statusCode = BadRequest => fetchCount = 0
         /\ fetchCount > 0 =>
              /\ SubSeq(log, 1, 3) = <<"urlToPayId", "accepts", "parseAcceptMediaType">>
              /\ fetches = {4}
              /\ \A i \in 1..Len(log) : log[i] = "getPreferredPaymentInfo" => i = 5

C9_Witness ==
  /\ pc = "done"
  /\ fetchCount = 1
  /\ Len(req.accept) >= 2
  /\ log[5] = "getPreferredPaymentInfo"

\* C10: a run ends in exactly one of an error response and a call of next();
\* Content-Type and res.locals are written only together with next().
C10_SingleOutcome ==
  /\ errorCalls + nextCalls <= 1
  /\ pc = "done" => errorCalls + nextCalls = 1
  /\ errorCalls = 1 <=> res.statusCode \in {BadRequest, NotFound}
  /\ nextCalls = 1 => res.statusCode = 0
  /\ nextCalls = 0 => (res.contentType = "" /\ res.locals = NoLocals)
  /\ nextCalls = 1 =>
        /\ res.contentType # ""
        /\ res.locals.payId = payId
        /\ res.locals.response # undefined
        /\ res.locals.paymentInformation = res.locals.response

\* a 404 after the fetch returned records, with nothing stored
C10_Witness ==
  /\ pc = "done"
  /\ allPaymentInformation # << >>
  /\ res.statusCode = NotFound
  /\ errorCalls = 1
  /\ res.locals = NoLocals

====
